---- MODULE Spec2Model ----
(***************************************************************************)
(* Cache-first job orchestration of the ivoox podcast application.         *)
(*                                                                         *)
(* The Django views (views.py) consult the Django cache, a registry of     *)
(* task ids kept in the same cache, and the Celery result backend; the     *)
(* Celery tasks (tasks.py) run the scraper (scraper.py), write the cache   *)
(* and return their result.  Every access to a shared store (cache,        *)
(* result backend, broker) is one atomic step; the web workers and the     *)
(* Celery workers interleave freely.                                       *)
(*                                                                         *)
(* Spec is the orchestration: requests, polls, jobs and cache expiry, with *)
(* a scraper call as one step of its task.  ScraperSpec follows one call   *)
(* of an IvooxAPI operation fetch by fetch over a listing of several       *)
(* pages, and the task that made the call to its end.                      *)
(***************************************************************************)
EXTENDS Integers, Sequences, FiniteSets, TLC

VARIABLES
    cache,    \* the Django cache: key -> entry (results and task ids)
    jobs,     \* the Celery broker and result backend: task id -> job
    nextId,   \* the next fresh task id
    web,      \* web worker -> the request it is serving (locals, position)
    scr       \* one call of an IvooxAPI operation followed fetch by fetch

vars == <<cache, jobs, nextId, web, scr>>

----------------------------------------------------------------------------
(* Bounds *)

MaxJobs == 2

Procs == {1, 2}
JobIds == 1..MaxJobs

----------------------------------------------------------------------------
(* Strings are sequences of characters, so that str.strip, str.lower and   *)
(* str.replace are computed and not assumed.                               *)

RawQueries ==
    { <<"a", " ", "b">>, <<"A", "_", "b">>, <<" ", "a", " ", "b">>, <<" ">> }

RawUrls == { <<"p", "_", "1", ".html">>, <<>> }

LowerChar(c) == IF c = "A" THEN "a" ELSE c

lower(s) == [i \in 1..Len(s) |-> LowerChar(s[i])]

replace(s, old, new) == [i \in 1..Len(s) |-> IF s[i] = old THEN new ELSE s[i]]

RECURSIVE lstrip(_)
lstrip(s) == IF s # <<>> /\ Head(s) = " " THEN lstrip(Tail(s)) ELSE s

RECURSIVE rstrip(_)
rstrip(s) ==
    IF s # <<>> /\ s[Len(s)] = " " THEN rstrip(SubSeq(s, 1, Len(s) - 1)) ELSE s

strip(s) == rstrip(lstrip(s))

SearchCacheKey(query) == <<"search_view_">> \o replace(lower(query), " ", "_")

TaskCacheKey(query) == <<"task_id_for_search_">> \o query

EpisodesCacheKey(podcast_url) == <<"episodes_view_">> \o podcast_url

Queries == { strip(r) : r \in RawQueries } \ { <<>> }
Urls == RawUrls \ { <<>> }

CacheKeys ==
    { SearchCacheKey(q) : q \in Queries } \cup { TaskCacheKey(q) : q \in Queries }
        \cup { EpisodesCacheKey(u) : u \in Urls }

----------------------------------------------------------------------------
(* The Django cache.  cache.get returns None for a missing key.            *)

None == [present |-> FALSE]
Entry(v) == [present |-> TRUE, val |-> v]

\* `if cached_data:` on a list or None: None and the empty list are falsy.
CachedDataTruthy(e) == e.present /\ e.val # <<>>

\* `if task_id:` on a task id (a non-empty uuid string) or None.
TaskIdTruthy(e) == e.present

----------------------------------------------------------------------------
(* The site as the scraper sees it: page n of a listing is a fetch error   *)
(* (requests.RequestException, tree None), an error that _fetch_and_parse  *)
(* does not catch (lxml's ParserError on an empty body), or a document     *)
(* with result nodes, thumbnail images, a title and a paginator.           *)

FetchErrorPage == [kind |-> "fetcherror", nodes |-> <<>>, thumbs |-> 0]
RaisePage == [kind |-> "raise", nodes |-> <<>>, thumbs |-> 0]
Doc(nodes, thumbs) == [kind |-> "doc", nodes |-> nodes, thumbs |-> thumbs]

\* URLs are sequences of tokens; a run of digits is one token.
BASE_URL == <<"http://www.ivoox.com">>
RfHref == <<"/e-mp3", "_rf_", "161629863", "_", "1", ".html">>
NoRfHref == <<"/e-mp3", "_rf_", "161629863", ".html">>

\* A result node: ok says that every sub-element the parsers index is there
\* (and, for a podcast, that its link matches PODCAST_ID_PATTERN); href is
\* the link the audio listing reads.
GoodNode == [ok |-> TRUE, id |-> 1, href |-> RfHref]
BadNode == [ok |-> FALSE, id |-> 0, href |-> RfHref]

PageSet ==
    { FetchErrorPage, RaisePage, Doc(<<>>, 0), Doc(<<GoodNode>>, 1),
      Doc(<<GoodNode>>, 0), Doc(<<BadNode, GoodNode>>, 2) }

\* The listings the workers meet: page 1 is any of PageSet, and every later
\* page is not served (a fetch error).
Sites == { <<pg>> : pg \in PageSet }

\* _fetch_and_parse without its except clause: a failed fetch raises.
_fetch_and_parse_not_catching(site, n) ==
    IF n <= Len(site) /\ site[n].kind # "fetcherror" THEN site[n] ELSE RaisePage

_fetch_and_parse(site, n) == IF n <= Len(site) THEN site[n] ELSE FetchErrorPage

RECURSIVE NodeIds(_)
NodeIds(nodes) ==
    IF nodes = <<>> THEN <<>> ELSE <<Head(nodes).id>> \o NodeIds(Tail(nodes))

_parse_podcast_nodes(tree) ==
    LET Valid(n) == n.ok IN NodeIds(SelectSeq(tree.nodes, Valid))

_parse_episode_nodes(tree) ==
    LET Valid(n) == n.ok IN NodeIds(SelectSeq(tree.nodes, Valid))

_extract_podcast_name(tree) == IF tree.title THEN "name" ELSE ""

\* _has_next_page finding a next-page target on every page (as the unused
\* _has_next_episode_page, lines 368-373, nearly does).
_has_next_page_always(tree) == TRUE

_has_next_page(tree) == tree.next

Digits == <<"1", "2", "3", "4", "5", "6", "7", "8", "9">>

\* str(n) of a page number
str(n) == Digits[n]

IsDigits(t) == t \in {"161629863"} \cup { Digits[n] : n \in 1..Len(Digits) }

\* re.search(r"_rf_(\d+_\d+)\.html", url_original): the leftmost match
construir_url_audio(url_original) ==
    LET Match(i) ==
            /\ i + 4 <= Len(url_original)
            /\ url_original[i] = "_rf_"
            /\ IsDigits(url_original[i + 1])
            /\ url_original[i + 2] = "_"
            /\ IsDigits(url_original[i + 3])
            /\ url_original[i + 4] = ".html"
        coincidencia == { i \in 1..Len(url_original) : Match(i) }
    IN  IF coincidencia # {}
        THEN LET i == CHOOSE m \in coincidencia : \A o \in coincidencia : m <= o
             IN  <<"https://www.ivoox.com/listen_mn_", url_original[i + 1], "_",
                   url_original[i + 3], ".mp3">>
        ELSE <<"Error: No se pudo extraer el numero de referencia de la URL proporcionada.">>

\* get_mp3_links lines 188-200 on a page whose links all have a thumbnail:
\* one record per link.
Mp3Records(tree) ==
    [i \in 1..Len(tree.nodes) |->
        [id |-> tree.nodes[i].id,
         mp3_url |-> construir_url_audio(BASE_URL \o tree.nodes[i].href)]]

Returned(v) == [raised |-> FALSE, value |-> v, exc |-> ""]
Raise(exc) == [raised |-> TRUE, value |-> <<>>, exc |-> exc]

RECURSIVE SearchLoop(_, _, _)
SearchLoop(site, current_page, results) ==
    LET tree == _fetch_and_parse(site, current_page)
        podcasts == _parse_podcast_nodes(tree)
    IN  IF tree.kind = "raise" THEN Raise("ParserError")
        ELSE IF tree.kind = "fetcherror" THEN Returned(results)
        ELSE IF podcasts = <<>> THEN Returned(results)
        ELSE SearchLoop(site, current_page + 1, results \o podcasts)

search_podcast(site, start_page) == SearchLoop(site, start_page, <<>>)

RECURSIVE Mp3Loop(_, _, _)
Mp3Loop(site, current_page, all_mp3s) ==
    LET tree == _fetch_and_parse(site, current_page)
        episode_links == tree.nodes
    IN  IF tree.kind = "raise" THEN Raise("ParserError")
        ELSE IF tree.kind = "fetcherror" THEN Returned(all_mp3s)
        ELSE IF episode_links = <<>> THEN Returned(all_mp3s)
        ELSE IF tree.thumbs < Len(episode_links) THEN Raise("IndexError")
        ELSE Mp3Loop(site, current_page + 1, all_mp3s \o Mp3Records(tree))

get_mp3_links(site, start_page) == Mp3Loop(site, start_page, <<>>)

----------------------------------------------------------------------------
(* Celery: a job is queued by delay(), taken by a worker, run, and its     *)
(* outcome stored in the result backend.                                   *)

\* result is the returned value of a task that ended SUCCESS; exc is the
\* exception the backend keeps for a task that ended FAILURE (task.result and
\* task.traceback of such a task).
NoJob ==
    [kind |-> "none", arg |-> <<>>, phase |-> "none", status |-> "PENDING",
     result |-> <<>>, exc |-> ""]

ReadyStates == {"SUCCESS", "FAILURE"}

\* Line 65 with "STARTED" left out of the tuple.
PendingStatesWithoutStarted == {"PENDING", "PROCESSING"}

\* views.py line 65
PendingStates == {"PENDING", "PROCESSING", "STARTED"}

\* AsyncResult.state: the backend's status of the task
AsyncResultState(task_id) == jobs[task_id].status

NewJob(kind, arg) ==
    [kind |-> kind, arg |-> arg, phase |-> "queued", status |-> "PENDING",
     result |-> <<>>, exc |-> ""]

----------------------------------------------------------------------------
(* Requests *)

\* No scraper call is followed on its own.
NoScrape ==
    [op |-> "none", site |-> <<>>, page |-> 0, current_page |-> 0,
     results |-> <<>>, name |-> "", fetched |-> <<>>, pc |-> "none", exc |-> "",
     job |-> 0, podcast_url |-> <<>>, urls |-> <<>>]

NoResp == [kind |-> "none", data |-> <<>>, id |-> 0]

\* A web worker between two requests.
Idle ==
    [pc |-> "idle", view |-> "none", query |-> <<>>, task_id |-> None,
     state |-> "none", podcasts |-> <<>>, id |-> 0, resp |-> NoResp]

Init ==
    /\ cache = [k \in CacheKeys |-> None]
    /\ jobs = [j \in JobIds |-> NoJob]
    /\ nextId = 1
    /\ web = [p \in Procs |-> Idle]
    /\ scr = NoScrape

\* The view returns: the response is all that is left of the request.
Respond(p, view, kind, data, id) ==
    web' = [web EXCEPT ![p] =
                [Idle EXCEPT !.pc = "done", !.view = view,
                             !.resp = [kind |-> kind, data |-> data, id |-> id]]]

Goto(p, locals, pc) == web' = [web EXCEPT ![p] = [locals EXCEPT !.pc = pc]]

(* SearchView.get_context_data, lines 24-48: the query is stripped, the    *)
(* keys are derived and the cache is read.                                 *)
SearchBegin(p, raw) ==
    /\ web[p].pc = "idle"
    /\ LET query == strip(raw)
           cached_data == cache[SearchCacheKey(query)]
       IN  IF query = <<>>
           THEN Respond(p, "search", "empty", <<>>, 0)
           ELSE IF CachedDataTruthy(cached_data)
           THEN Respond(p, "search", "cached", cached_data.val, 0)
           ELSE Goto(p, [web[p] EXCEPT !.view = "search", !.query = query], "L50")
    /\ UNCHANGED <<cache, jobs, nextId>>
    /\ UNCHANGED scr

(* lines 50-51: task_id = cache.get(task_cache_key) *)
SearchReadTask(p) ==
    /\ web[p].pc = "L50"
    /\ LET task_id == cache[TaskCacheKey(web[p].query)]
           locals == [web[p] EXCEPT !.task_id = task_id]
       IN  IF TaskIdTruthy(task_id) THEN Goto(p, locals, "L54")
           ELSE Goto(p, locals, "L79")
    /\ UNCHANGED <<cache, jobs, nextId>>
    /\ UNCHANGED scr

(* lines 52-61: the first read of task.state; a ready state is kept by     *)
(* the AsyncResult, and task.result comes with it.                         *)
SearchCheckSuccess(p) ==
    /\ web[p].pc = "L54"
    /\ LET state == AsyncResultState(web[p].task_id.val)
       IN  IF state = "SUCCESS"
           THEN Goto(p, [web[p] EXCEPT !.state = state,
                                       !.podcasts = jobs[web[p].task_id.val].result],
                     "L62")
           ELSE IF state \in ReadyStates
           THEN Goto(p, [web[p] EXCEPT !.state = state], "L65")
           ELSE Goto(p, web[p], "L65")
    /\ UNCHANGED <<cache, jobs, nextId>>
    /\ UNCHANGED scr

(* lines 62-63: cache.delete(task_cache_key); the result is returned *)
SearchDeleteSuccess(p) ==
    /\ web[p].pc = "L62"
    /\ cache' = [cache EXCEPT ![TaskCacheKey(web[p].query)] = None]
    /\ Respond(p, "search", "result", web[p].podcasts, web[p].task_id.val)
    /\ UNCHANGED <<jobs, nextId>>
    /\ UNCHANGED scr

(* lines 65-73: the second read of task.state (read again from the backend *)
(* unless a ready state was kept), then the comparison of line 71.         *)
SearchCheckPending(p) ==
    /\ web[p].pc = "L65"
    /\ LET state == IF web[p].state \in ReadyStates THEN web[p].state
                    ELSE AsyncResultState(web[p].task_id.val)
           locals == IF state \in ReadyStates THEN [web[p] EXCEPT !.state = state]
                     ELSE web[p]
       IN  IF state \in PendingStates
           THEN Respond(p, "search", "attached", <<>>, web[p].task_id.val)
           ELSE IF state = "FAILURE" THEN Goto(p, locals, "L74")
           ELSE Goto(p, locals, "L79")
    /\ UNCHANGED <<cache, jobs, nextId>>
    /\ UNCHANGED scr

(* lines 72-75: the failure is surfaced and the registration deleted *)
SearchDeleteFailure(p) ==
    /\ web[p].pc = "L74"
    /\ cache' = [cache EXCEPT ![TaskCacheKey(web[p].query)] = None]
    /\ Respond(p, "search", "error", <<>>, web[p].task_id.val)
    /\ UNCHANGED <<jobs, nextId>>
    /\ UNCHANGED scr

(* line 79: task = search_podcast_task.delay(query) *)
SearchDelay(p) ==
    /\ web[p].pc = "L79"
    /\ nextId <= MaxJobs
    /\ jobs' = [jobs EXCEPT ![nextId] = NewJob("search", web[p].query)]
    /\ nextId' = nextId + 1
    /\ Goto(p, [web[p] EXCEPT !.id = nextId], "L82")
    /\ UNCHANGED cache
    /\ UNCHANGED scr

(* lines 82-85: cache.set(task_cache_key, task.id, timeout=600) *)
SearchRegister(p) ==
    /\ web[p].pc = "L82"
    /\ cache' = [cache EXCEPT ![TaskCacheKey(web[p].query)] = Entry(web[p].id)]
    /\ Respond(p, "search", "new", <<>>, web[p].id)
    /\ UNCHANGED <<jobs, nextId>>
    /\ UNCHANGED scr

(* EpisodeDataView.get, lines 148-178 *)
EpisodeData(p, podcast_url) ==
    /\ web[p].pc = "idle"
    /\ IF podcast_url = <<>>
       THEN /\ Respond(p, "episodes", "badrequest", <<>>, 0)
            /\ UNCHANGED <<jobs, nextId>>
       ELSE LET cached_data == cache[EpisodesCacheKey(podcast_url)]
            IN  IF CachedDataTruthy(cached_data)
                THEN /\ Respond(p, "episodes", "cached", cached_data.val, 0)
                     /\ UNCHANGED <<jobs, nextId>>
                ELSE /\ nextId <= MaxJobs
                     /\ jobs' = [jobs EXCEPT ![nextId] = NewJob("episodes", podcast_url)]
                     /\ nextId' = nextId + 1
                     /\ Respond(p, "episodes", "new", <<>>, nextId)
    /\ UNCHANGED cache
    /\ UNCHANGED scr

(* The response has been sent; the worker is free for the next request. *)
Return(p) ==
    /\ web[p].pc = "done"
    /\ web' = [web EXCEPT ![p] = Idle]
    /\ UNCHANGED <<cache, jobs, nextId>>
    /\ UNCHANGED scr

----------------------------------------------------------------------------
(* Celery workers *)

(* A worker takes the task from the queue and the backend reports it as   *)
(* STARTED (the views treat PENDING and STARTED alike, line 65).           *)
StartJob(j) ==
    /\ jobs[j].phase = "queued"
    /\ jobs' = [jobs EXCEPT ![j].phase = "running", ![j].status = "STARTED"]
    /\ UNCHANGED <<cache, nextId, web>>
    /\ UNCHANGED scr

(* search_podcast_task with the cache.set of line 67 in a finally clause   *)
(* and podcasts initialised to []: a call that raises writes the empty     *)
(* list under the key.                                                     *)
search_podcast_task_caching_in_finally(j, site) ==
    /\ jobs[j].phase = "running"
    /\ jobs[j].kind = "search"
    /\ LET query == jobs[j].arg
           cache_key == SearchCacheKey(query)
           podcasts == search_podcast(site, 1)
       IN  IF podcasts.raised
           THEN /\ cache' = [cache EXCEPT ![cache_key] = Entry(<<>>)]
                /\ jobs' = [jobs EXCEPT ![j].phase = "done", ![j].status = "FAILURE",
                                        ![j].exc = podcasts.exc]
           ELSE /\ cache' = [cache EXCEPT ![cache_key] = Entry(podcasts.value)]
                /\ jobs' = [jobs EXCEPT ![j].phase = "returning",
                                        ![j].result = podcasts.value]
    /\ UNCHANGED <<nextId, web>>
    /\ UNCHANGED scr

(* search_podcast_task declared with autoretry_for=(Exception,): a call    *)
(* that raises puts the task back in the queue.                            *)
search_podcast_task_with_autoretry(j, site) ==
    /\ jobs[j].phase = "running"
    /\ jobs[j].kind = "search"
    /\ LET query == jobs[j].arg
           cache_key == SearchCacheKey(query)
           podcasts == search_podcast(site, 1)
       IN  IF podcasts.raised
           THEN /\ jobs' = [jobs EXCEPT ![j].phase = "queued", ![j].status = "RETRY",
                                        ![j].exc = podcasts.exc]
                /\ UNCHANGED cache
           ELSE /\ cache' = [cache EXCEPT ![cache_key] = Entry(podcasts.value)]
                /\ jobs' = [jobs EXCEPT ![j].phase = "returning",
                                        ![j].result = podcasts.value]
    /\ UNCHANGED <<nextId, web>>
    /\ UNCHANGED scr

(* search_podcast_task, lines 56-77 up to the return statement *)
search_podcast_task(j, site) ==
    /\ jobs[j].phase = "running"
    /\ jobs[j].kind = "search"
    /\ LET query == jobs[j].arg
           cache_key == SearchCacheKey(query)
           podcasts == search_podcast(site, 1)
       IN  IF podcasts.raised
           THEN /\ jobs' = [jobs EXCEPT ![j].phase = "done", ![j].status = "FAILURE",
                                        ![j].exc = podcasts.exc]
                /\ UNCHANGED cache
           ELSE /\ cache' = [cache EXCEPT ![cache_key] = Entry(podcasts.value)]
                /\ jobs' = [jobs EXCEPT ![j].phase = "returning",
                                        ![j].result = podcasts.value]
    /\ UNCHANGED <<nextId, web>>
    /\ UNCHANGED scr

(* scrape_podcast_episodes_task with the return statement of line 40       *)
(* ahead of the cache.set of line 34: the task returns and the cache is    *)
(* never written.                                                          *)
scrape_podcast_episodes_task_returning_first(j, site) ==
    /\ jobs[j].phase = "running"
    /\ jobs[j].kind = "episodes"
    /\ LET mp3_links == get_mp3_links(site, 1)
       IN  IF mp3_links.raised
           THEN jobs' = [jobs EXCEPT ![j].phase = "done", ![j].status = "FAILURE",
                                     ![j].exc = mp3_links.exc]
           ELSE jobs' = [jobs EXCEPT ![j].phase = "returning",
                                     ![j].result = mp3_links.value]
    /\ UNCHANGED <<cache, nextId, web>>
    /\ UNCHANGED scr

(* scrape_podcast_episodes_task, lines 23-45 up to the return statement *)
scrape_podcast_episodes_task(j, site) ==
    /\ jobs[j].phase = "running"
    /\ jobs[j].kind = "episodes"
    /\ LET podcast_url == jobs[j].arg
           cache_key == EpisodesCacheKey(podcast_url)
           mp3_links == get_mp3_links(site, 1)
       IN  IF mp3_links.raised
           THEN /\ jobs' = [jobs EXCEPT ![j].phase = "done", ![j].status = "FAILURE",
                                        ![j].exc = mp3_links.exc]
                /\ UNCHANGED cache
           ELSE /\ cache' = [cache EXCEPT ![cache_key] = Entry(mp3_links.value)]
                /\ jobs' = [jobs EXCEPT ![j].phase = "returning",
                                        ![j].result = mp3_links.value]
    /\ UNCHANGED <<nextId, web>>
    /\ UNCHANGED scr

(* The task returns: Celery stores SUCCESS and the returned value. *)
FinishJob(j) ==
    /\ jobs[j].phase = "returning"
    /\ jobs' = [jobs EXCEPT ![j].phase = "done", ![j].status = "SUCCESS"]
    /\ UNCHANGED <<cache, nextId, web>>
    /\ UNCHANGED scr

(* A cache entry reaches its timeout (600 s for a task id, CACHE_TTL_1M    *)
(* and CACHE_TTL_24H for results) and is gone.                             *)
Expire(k) ==
    /\ cache[k].present
    /\ cache' = [cache EXCEPT ![k] = None]
    /\ UNCHANGED <<jobs, nextId, web>>
    /\ UNCHANGED scr

----------------------------------------------------------------------------
(* TaskStatusView.get *)

(* lines 188-207; task_id 0 stands for a request without task_id.  The     *)
(* first read of task.state; task.result comes with SUCCESS.               *)
TaskStatusBegin(p, task_id) ==
    /\ web[p].pc = "idle"
    /\ LET locals == [web[p] EXCEPT !.view = "status", !.id = task_id]
       IN  IF task_id = 0
           THEN Respond(p, "status", "badrequest", <<>>, 0)
           ELSE LET state == AsyncResultState(task_id)
                IN  IF state = "SUCCESS"
                    THEN Respond(p, "status", "SUCCESS", jobs[task_id].result, task_id)
                    ELSE IF state \in ReadyStates
                    THEN Goto(p, [locals EXCEPT !.state = state], "L208")
                    ELSE Goto(p, locals, "L208")
    /\ UNCHANGED <<cache, jobs, nextId>>
    /\ UNCHANGED scr

(* TaskStatusView.get cleaning up the registration of a task it reports as *)
(* failed, which the view does not do.                                     *)
TaskStatusCheckFailureClearing(p) ==
    /\ web[p].pc = "L208"
    /\ LET state == IF web[p].state \in ReadyStates THEN web[p].state
                    ELSE AsyncResultState(web[p].id)
       IN  IF state = "FAILURE"
           THEN /\ Respond(p, "status", "ERROR", <<>>, web[p].id)
                /\ cache' = IF jobs[web[p].id].kind = "search"
                            THEN [cache EXCEPT ![TaskCacheKey(jobs[web[p].id].arg)] = None]
                            ELSE cache
           ELSE /\ Respond(p, "status", "PROCESSING", <<>>, web[p].id)
                /\ UNCHANGED cache
    /\ UNCHANGED <<jobs, nextId>>
    /\ UNCHANGED scr

(* lines 208-222: the second read of task.state, and the one of the        *)
(* message when the task is not reported as failed.                        *)
TaskStatusCheckFailure(p) ==
    /\ web[p].pc = "L208"
    /\ LET state == IF web[p].state \in ReadyStates THEN web[p].state
                    ELSE AsyncResultState(web[p].id)
       IN  IF state = "FAILURE"
           THEN Respond(p, "status", "ERROR", <<>>, web[p].id)
           ELSE Respond(p, "status", "PROCESSING", <<>>, web[p].id)
    /\ UNCHANGED <<cache, jobs, nextId>>
    /\ UNCHANGED scr

----------------------------------------------------------------------------

Next ==
    \/ \E p \in Procs, raw \in RawQueries : SearchBegin(p, raw)
    \/ \E p \in Procs : SearchReadTask(p)
    \/ \E p \in Procs : SearchCheckSuccess(p)
    \/ \E p \in Procs : SearchDeleteSuccess(p)
    \/ \E p \in Procs : SearchCheckPending(p)
    \/ \E p \in Procs : SearchDeleteFailure(p)
    \/ \E p \in Procs : SearchDelay(p)
    \/ \E p \in Procs : SearchRegister(p)
    \/ \E p \in Procs, u \in RawUrls : EpisodeData(p, u)
    \/ \E p \in Procs : Return(p)
    \/ \E j \in JobIds : StartJob(j)
    \/ \E j \in JobIds, site \in Sites : search_podcast_task(j, site)
    \/ \E j \in JobIds, site \in Sites : scrape_podcast_episodes_task(j, site)
    \/ \E j \in JobIds : FinishJob(j)
    \/ \E k \in CacheKeys : Expire(k)
    \/ \E p \in Procs, id \in 0..MaxJobs : TaskStatusBegin(p, id)
    \/ \E p \in Procs : TaskStatusCheckFailure(p)

Spec == Init /\ [][Next]_vars

----------------------------------------------------------------------------
(* The scraper, one loop iteration (one fetch) per step.  A call of an     *)
(* IvooxAPI operation runs against one listing; search_podcast and         *)
(* get_mp3_links called without a page are the calls the tasks make        *)
(* (tasks.py lines 64 and 31), and the task goes on when the call is over. *)

MaxPages == 3

Ops == {"search_podcast", "search_episodes", "get_mp3_links"}

\* The page argument: 0 stands for None.
PageArgs == 0..(MaxPages - 1)

NoRfNode == [ok |-> TRUE, id |-> 0, href |-> NoRfHref]

Listing(nodes, thumbs, title, next) ==
    [kind |-> "doc", nodes |-> nodes, thumbs |-> thumbs, title |-> title,
     next |-> next]

ListingPages ==
    { FetchErrorPage, RaisePage,
      Listing(<<>>, 0, TRUE, FALSE),
      Listing(<<GoodNode>>, 1, TRUE, TRUE),
      Listing(<<GoodNode, GoodNode>>, 2, TRUE, FALSE),
      Listing(<<BadNode, GoodNode>>, 2, TRUE, TRUE),
      Listing(<<GoodNode, GoodNode>>, 1, TRUE, TRUE),
      Listing(<<GoodNode>>, 1, FALSE, TRUE),
      Listing(<<NoRfNode, GoodNode>>, 2, TRUE, TRUE),
      Listing(<<BadNode>>, 1, TRUE, TRUE) }

\* The nodes of a listing are told apart by page and place: node i of page n
\* is node 10 * n + i.
Numbered(pages) ==
    [n \in 1..Len(pages) |->
        [pages[n] EXCEPT !.nodes =
            [i \in 1..Len(pages[n].nodes) |->
                [pages[n].nodes[i] EXCEPT !.id = 10 * n + i]]]]

Listings ==
    { Numbered(pages) :
        pages \in UNION { [1..n -> ListingPages] : n \in 1..MaxPages } }

\* re.sub(r"_\d+\.html$", "", podcast_url) with the anchor left out of the
\* pattern: the first page suffix is removed, wherever it is.
re_sub_page_suffix_unanchored(podcast_url) ==
    LET at == { i \in 1..(Len(podcast_url) - 2) :
                  /\ podcast_url[i] = "_"
                  /\ IsDigits(podcast_url[i + 1])
                  /\ podcast_url[i + 2] = ".html" }
    IN  IF at = {} THEN podcast_url
        ELSE LET i == CHOOSE m \in at : \A o \in at : m <= o
             IN  SubSeq(podcast_url, 1, i - 1)
                     \o SubSeq(podcast_url, i + 3, Len(podcast_url))

\* get_mp3_links line 164: re.sub(r"_\d+\.html$", "", podcast_url)
re_sub_page_suffix(podcast_url) ==
    LET n == Len(podcast_url)
    IN  IF /\ n >= 3
           /\ podcast_url[n - 2] = "_"
           /\ IsDigits(podcast_url[n - 1])
           /\ podcast_url[n] = ".html"
        THEN SubSeq(podcast_url, 1, n - 3)
        ELSE podcast_url

\* get_mp3_links line 169: f"{base_url}_{current_page}.html"
PageUrl(base_url, current_page) == base_url \o <<"_", str(current_page), ".html">>

\* The listing URLs get_mp3_links is called with: page 1 and page 2 of a
\* listing, the listing without a page suffix, and a listing whose own name
\* ends like a page suffix.
ListingUrls ==
    { <<"p", "_", "1", ".html">>, <<"p", "_", "2", ".html">>, <<"p">>,
      <<"p", "_", "3", ".html", "_", "1", ".html">> }

ScraperInit ==
    /\ cache = [k \in CacheKeys \cup { EpisodesCacheKey(u) : u \in ListingUrls } |->
                  None]
    /\ web = [p \in Procs |-> Idle]
    /\ \E op \in Ops, site \in Listings, page \in PageArgs :
          LET kind == IF page # 0 THEN "none"
                      ELSE IF op = "search_podcast" THEN "search"
                      ELSE IF op = "get_mp3_links" THEN "episodes"
                      ELSE "none"
              job == IF kind = "none" THEN 0 ELSE 1
          IN  /\ nextId = job + 1
              /\ \E podcast_url \in IF op = "get_mp3_links" THEN ListingUrls
                                    ELSE {<<>>} :
                  \E arg \in IF kind = "search" THEN Queries
                            ELSE IF kind = "episodes" THEN {podcast_url}
                            ELSE {<<>>} :
                    /\ scr = [op |-> op, site |-> site, page |-> page,
                              current_page |-> IF page # 0 THEN page ELSE 1,
                              results |-> <<>>, name |-> "", fetched |-> <<>>,
                              pc |-> "loop", exc |-> "", job |-> job,
                              podcast_url |-> podcast_url, urls |-> <<>>]
                    /\ jobs = [j \in JobIds |->
                                IF j = job
                                THEN [NewJob(kind, arg) EXCEPT !.phase = "running",
                                                               !.status = "STARTED"]
                                ELSE NoJob]

\* The fetch of the current page, lines 92-95, 129-132 and 169-172.  The
\* listing answers by page number; for get_mp3_links the URL asked for is
\* kept as well (lines 164 and 169).
Fetch(locals) ==
    [locals EXCEPT
        !.fetched = Append(locals.fetched, locals.current_page),
        !.urls = IF locals.op = "get_mp3_links"
                 THEN Append(locals.urls,
                             PageUrl(re_sub_page_suffix(locals.podcast_url),
                                     locals.current_page))
                 ELSE locals.urls]

(* search_podcast without the test of line 100: a page without podcasts   *)
(* does not end the loop.                                                  *)
SearchPodcastIterationPastEmptyPage ==
    /\ scr.op = "search_podcast"
    /\ scr.pc = "loop"
    /\ LET tree == _fetch_and_parse(scr.site, scr.current_page)
           podcasts == _parse_podcast_nodes(tree)
       IN  scr' =
             IF tree.kind = "raise"
             THEN [Fetch(scr) EXCEPT !.pc = "raised", !.exc = "ParserError"]
             ELSE IF tree.kind = "fetcherror"
             THEN [Fetch(scr) EXCEPT !.pc = "returned"]
             ELSE [Fetch(scr) EXCEPT !.results = scr.results \o podcasts,
                                     !.current_page = scr.current_page + 1]
    /\ UNCHANGED <<cache, jobs, nextId, web>>

(* search_podcast putting the podcasts of a page in front of the results   *)
(* instead of extending the list (line 103).                               *)
SearchPodcastIterationPrepending ==
    /\ scr.op = "search_podcast"
    /\ scr.pc = "loop"
    /\ LET tree == _fetch_and_parse(scr.site, scr.current_page)
           podcasts == _parse_podcast_nodes(tree)
       IN  scr' =
             IF tree.kind = "raise"
             THEN [Fetch(scr) EXCEPT !.pc = "raised", !.exc = "ParserError"]
             ELSE IF tree.kind = "fetcherror"
             THEN [Fetch(scr) EXCEPT !.pc = "returned"]
             ELSE IF podcasts = <<>>
             THEN [Fetch(scr) EXCEPT !.pc = "returned"]
             ELSE [Fetch(scr) EXCEPT !.results = podcasts \o scr.results,
                                     !.current_page = scr.current_page + 1]
    /\ UNCHANGED <<cache, jobs, nextId, web>>

(* search_podcast, lines 91-105: one pass of the while loop *)
SearchPodcastIteration ==
    /\ scr.op = "search_podcast"
    /\ scr.pc = "loop"
    /\ LET tree == _fetch_and_parse(scr.site, scr.current_page)
           podcasts == _parse_podcast_nodes(tree)
       IN  scr' =
             IF tree.kind = "raise"
             THEN [Fetch(scr) EXCEPT !.pc = "raised", !.exc = "ParserError"]
             ELSE IF tree.kind = "fetcherror"
             THEN [Fetch(scr) EXCEPT !.pc = "returned"]
             ELSE IF podcasts = <<>>
             THEN [Fetch(scr) EXCEPT !.pc = "returned"]
             ELSE [Fetch(scr) EXCEPT !.results = scr.results \o podcasts,
                                     !.current_page = scr.current_page + 1]
    /\ UNCHANGED <<cache, jobs, nextId, web>>

(* search_episodes without the test of lines 138-140: a page 1 without a   *)
(* podcast name does not end the call.                                     *)
SearchEpisodesIterationKeepingOn ==
    /\ scr.op = "search_episodes"
    /\ scr.pc = "loop"
    /\ LET tree == _fetch_and_parse(scr.site, scr.current_page)
           name == IF scr.name = "" THEN _extract_podcast_name(tree) ELSE scr.name
           episodes == _parse_episode_nodes(tree)
       IN  scr' =
             IF tree.kind = "raise"
             THEN [Fetch(scr) EXCEPT !.pc = "raised", !.exc = "ParserError"]
             ELSE IF tree.kind = "fetcherror"
             THEN [Fetch(scr) EXCEPT !.pc = "returned"]
             ELSE IF episodes = <<>>
             THEN [Fetch(scr) EXCEPT !.name = name, !.pc = "returned"]
             ELSE IF scr.page # 0 \/ ~ _has_next_page(tree)
             THEN [Fetch(scr) EXCEPT !.name = name,
                                     !.results = scr.results \o episodes,
                                     !.pc = "returned"]
             ELSE [Fetch(scr) EXCEPT !.name = name,
                                     !.results = scr.results \o episodes,
                                     !.current_page = scr.current_page + 1]
    /\ UNCHANGED <<cache, jobs, nextId, web>>

(* search_episodes, lines 128-151: one pass of the while loop *)
SearchEpisodesIteration ==
    /\ scr.op = "search_episodes"
    /\ scr.pc = "loop"
    /\ LET tree == _fetch_and_parse(scr.site, scr.current_page)
           name == IF scr.name = "" THEN _extract_podcast_name(tree) ELSE scr.name
           episodes == _parse_episode_nodes(tree)
       IN  scr' =
             IF tree.kind = "raise"
             THEN [Fetch(scr) EXCEPT !.pc = "raised", !.exc = "ParserError"]
             ELSE IF tree.kind = "fetcherror"
             THEN [Fetch(scr) EXCEPT !.pc = "returned"]
             ELSE IF name = "" /\ scr.current_page = 1
             THEN [Fetch(scr) EXCEPT !.pc = "returned"]
             ELSE IF episodes = <<>>
             THEN [Fetch(scr) EXCEPT !.name = name, !.pc = "returned"]
             ELSE IF scr.page # 0 \/ ~ _has_next_page(tree)
             THEN [Fetch(scr) EXCEPT !.name = name,
                                     !.results = scr.results \o episodes,
                                     !.pc = "returned"]
             ELSE [Fetch(scr) EXCEPT !.name = name,
                                     !.results = scr.results \o episodes,
                                     !.current_page = scr.current_page + 1]
    /\ UNCHANGED <<cache, jobs, nextId, web>>

(* get_mp3_links, lines 168-204: one pass of the while loop.  The for loop *)
(* indexes episode_thumbnails by the link's place: a link past the last    *)
(* thumbnail raises IndexError.                                            *)
GetMp3LinksIteration ==
    /\ scr.op = "get_mp3_links"
    /\ scr.pc = "loop"
    /\ LET tree == _fetch_and_parse(scr.site, scr.current_page)
           episode_links == tree.nodes
       IN  scr' =
             IF tree.kind = "raise"
             THEN [Fetch(scr) EXCEPT !.pc = "raised", !.exc = "ParserError"]
             ELSE IF tree.kind = "fetcherror"
             THEN [Fetch(scr) EXCEPT !.pc = "returned"]
             ELSE IF episode_links = <<>>
             THEN [Fetch(scr) EXCEPT !.pc = "returned"]
             ELSE IF tree.thumbs < Len(episode_links)
             THEN [Fetch(scr) EXCEPT !.pc = "raised", !.exc = "IndexError"]
             ELSE [Fetch(scr) EXCEPT !.results = scr.results \o Mp3Records(tree),
                                     !.current_page = scr.current_page + 1]
    /\ UNCHANGED <<cache, jobs, nextId, web>>

(* search_podcast_task, lines 61-77, once api.search_podcast(query) has    *)
(* returned or raised                                                      *)
SearchTaskCompletes(j) ==
    /\ scr.job = j
    /\ scr.op = "search_podcast"
    /\ scr.pc \in {"returned", "raised"}
    /\ jobs[j].phase = "running"
    /\ LET cache_key == SearchCacheKey(jobs[j].arg)
           podcasts == scr.results
       IN  IF scr.pc = "raised"
           THEN /\ jobs' = [jobs EXCEPT ![j].phase = "done", ![j].status = "FAILURE",
                                        ![j].exc = scr.exc]
                /\ UNCHANGED cache
           ELSE /\ cache' = [cache EXCEPT ![cache_key] = Entry(podcasts)]
                /\ jobs' = [jobs EXCEPT ![j].phase = "returning",
                                        ![j].result = podcasts]
    /\ UNCHANGED <<nextId, web, scr>>

(* scrape_podcast_episodes_task, lines 28-45, once                         *)
(* api.get_mp3_links(podcast_url) has returned or raised                   *)
EpisodesTaskCompletes(j) ==
    /\ scr.job = j
    /\ scr.op = "get_mp3_links"
    /\ scr.pc \in {"returned", "raised"}
    /\ jobs[j].phase = "running"
    /\ LET cache_key == EpisodesCacheKey(jobs[j].arg)
           mp3_links == scr.results
       IN  IF scr.pc = "raised"
           THEN /\ jobs' = [jobs EXCEPT ![j].phase = "done", ![j].status = "FAILURE",
                                        ![j].exc = scr.exc]
                /\ UNCHANGED cache
           ELSE /\ cache' = [cache EXCEPT ![cache_key] = Entry(mp3_links)]
                /\ jobs' = [jobs EXCEPT ![j].phase = "returning",
                                        ![j].result = mp3_links]
    /\ UNCHANGED <<nextId, web, scr>>

ScraperNext ==
    \/ SearchPodcastIteration
    \/ SearchEpisodesIteration
    \/ GetMp3LinksIteration
    \/ \E j \in JobIds : SearchTaskCompletes(j)
    \/ \E j \in JobIds : EpisodesTaskCompletes(j)
    \/ \E j \in JobIds : FinishJob(j)

ScraperSpec == ScraperInit /\ [][ScraperNext]_vars

\* The request for page n of the listing fails (requests.RequestException).
FetchFails(site, n) == n > Len(site) \/ site[n].kind = "fetcherror"

\* The records one page contributes to the result of an operation.
PageRecords(op, tree) ==
    IF tree.kind # "doc" THEN <<>>
    ELSE IF op = "search_podcast" THEN _parse_podcast_nodes(tree)
    ELSE IF op = "search_episodes" THEN _parse_episode_nodes(tree)
    ELSE Mp3Records(tree)

\* The records of pages from..to of a listing, in page order.
RECURSIVE RecordsOfPages(_, _, _, _)
RecordsOfPages(op, site, from, to) ==
    IF from > to THEN <<>>
    ELSE PageRecords(op, _fetch_and_parse(site, from))
             \o RecordsOfPages(op, site, from + 1, to)

\* The call followed step by step ends as the operators used by the tasks say.
ScrapeAgreesWithOperators ==
    (scr.pc \in {"returned", "raised"} /\ scr.job # 0) =>
        LET outcome == IF scr.op = "search_podcast"
                       THEN search_podcast(scr.site, 1)
                       ELSE get_mp3_links(scr.site, 1)
        IN  /\ outcome.raised = (scr.pc = "raised")
            /\ outcome.exc = scr.exc
            /\ ~ outcome.raised => outcome.value = scr.results

----------------------------------------------------------------------------
(* Vocabulary of the properties *)

\* The cache key a job writes its result under (tasks.py lines 26 and 59).
JobCacheKey(j) ==
    IF jobs[j].kind = "search" THEN SearchCacheKey(jobs[j].arg)
    ELSE EpisodesCacheKey(jobs[j].arg)

\* Two queries that differ only in letter case or in space versus underscore.
SameLogicalQuery(a, b) ==
    /\ Len(a) = Len(b)
    /\ \A i \in 1..Len(a) :
          \/ LowerChar(a[i]) = LowerChar(b[i])
          \/ {a[i], b[i]} \subseteq {" ", "_"}

\* Worker p takes a step of the request it serves.
Steps(p) == web'[p] # web[p]

\* In this step worker p answers "processing" with a job it has just scheduled
\* (EpisodeDataView) or goes on to schedule one (SearchView).
EpisodeSchedules(p) ==
    /\ web[p].pc = "idle"
    /\ web'[p].pc = "done"
    /\ web'[p].view = "episodes"
    /\ web'[p].resp.kind = "new"

SearchMisses(p) == web[p].pc = "idle" /\ web'[p].pc = "L50"

----------------------------------------------------------------------------
(* C1.  Two concurrent SearchView requests for the same query that both    *)
(* found no registration result in exactly one scheduled task: they never  *)
(* both hold a task of their own scheduling.                               *)
C1_OneJobForConcurrentRequests ==
    \A p \in Procs, q \in Procs :
        ( /\ p # q
          /\ web[p].pc = "L82"
          /\ web[q].pc = "L82"
          /\ web[p].query = web[q].query
          /\ web[p].task_id = None
          /\ web[q].task_id = None )
        => web[p].id = web[q].id

(* C2.  A SearchView request that has read a task id from the registry and *)
(* whose task is still pending (PENDING or STARTED) answers with that same *)
(* task id; none of its steps schedules a job or changes the cache or the  *)
(* registry.                                                               *)
C2_AttachWhilePending ==
    [][ \A p \in Procs :
          ( /\ web[p].pc \in {"L54", "L65"}
            /\ Steps(p)
            /\ jobs[web[p].task_id.val].status \notin ReadyStates )
          => /\ UNCHANGED <<cache, jobs, nextId>>
             /\ web[p].pc = "L54" => web'[p].pc = "L65"
             /\ web[p].pc = "L65" =>
                   /\ web'[p].pc = "done"
                   /\ web'[p].resp =
                        [kind |-> "attached", data |-> <<>>, id |-> web[p].task_id.val]
      ]_vars

\* C2's case: a request was attached to a task that is still running.
C2_Witness ==
    \E p \in Procs :
        /\ web[p].pc = "done"
        /\ web[p].resp.kind = "attached"
        /\ jobs[web[p].resp.id].status = "STARTED"
        /\ cache[TaskCacheKey(jobs[web[p].resp.id].arg)] = Entry(web[p].resp.id)

(* C3.  While no cache entry exists for a podcast URL, at most one         *)
(* episodes job for that URL is scheduled and not yet terminal.            *)
C3_OneEpisodesJobInFlight ==
    \A u \in Urls :
        cache[EpisodesCacheKey(u)] = None =>
            Cardinality({ j \in JobIds : /\ jobs[j].kind = "episodes"
                                         /\ jobs[j].arg = u
                                         /\ jobs[j].status \notin ReadyStates }) <= 1

(* C4.  A SearchView request reading the registry while a pending task is  *)
(* registered for a query that differs from its own only in letter case or *)
(* in space versus underscore finds that task (same registry key) and goes *)
(* on to attach to it.                                                     *)
C4_SameKeyForSameLogicalQuery ==
    [][ \A p \in Procs, j \in JobIds :
          ( /\ web[p].pc = "L50"
            /\ Steps(p)
            /\ jobs[j].kind = "search"
            /\ jobs[j].status \notin ReadyStates
            /\ SameLogicalQuery(jobs[j].arg, web[p].query)
            /\ cache[TaskCacheKey(jobs[j].arg)] = Entry(j) )
          => /\ SearchCacheKey(jobs[j].arg) = SearchCacheKey(web[p].query)
             /\ TaskCacheKey(jobs[j].arg) = TaskCacheKey(web[p].query)
             /\ web'[p].pc = "L54"
             /\ web'[p].task_id = Entry(j)
      ]_vars

(* C5.  Once a job has reached SUCCESS and the cache holds its result      *)
(* under its key, a request arriving for that key is served from the cache *)
(* and schedules nothing: it neither goes on to the registry nor answers   *)
(* with a new job.                                                         *)
C5_CacheRoundTrip ==
    [][ \A j \in JobIds :
          ( /\ jobs[j].status = "SUCCESS"
            /\ cache[JobCacheKey(j)] = Entry(jobs[j].result) )
          => \A p \in Procs :
                /\ ~ ( /\ SearchMisses(p)
                       /\ SearchCacheKey(web'[p].query) = JobCacheKey(j) )
                /\ ~ ( /\ EpisodeSchedules(p)
                       /\ EpisodesCacheKey(jobs'[web'[p].resp.id].arg) = JobCacheKey(j) )
      ]_vars

(* C6.  Rule 1 comes first: a request goes past the cache read (on to the  *)
(* registry for SearchView, to scheduling for EpisodeDataView) only when   *)
(* no cache entry exists for its key.                                      *)
C6_CacheEntryServedFirst ==
    [][ \A p \in Procs :
          /\ SearchMisses(p) => cache[SearchCacheKey(web'[p].query)] = None
          /\ EpisodeSchedules(p) =>
                cache[EpisodesCacheKey(jobs'[web'[p].resp.id].arg)] = None
      ]_vars

(* C7.  Rule 3: a request that found its registered task SUCCESS returns   *)
(* the task's result and clears the registration, and when it returns the  *)
(* cache holds that result under the key, as an entry rule 1 serves.       *)
C7_SuccessMaterialized ==
    [][ \A p \in Procs :
          (web[p].pc = "L62" /\ Steps(p))
          => /\ web'[p].pc = "done"
             /\ web'[p].resp =
                  [kind |-> "result", data |-> jobs[web[p].task_id.val].result,
                   id |-> web[p].task_id.val]
             /\ cache'[TaskCacheKey(web[p].query)] = None
             /\ cache'[SearchCacheKey(web[p].query)] = Entry(web[p].podcasts)
             /\ CachedDataTruthy(cache'[SearchCacheKey(web[p].query)])
      ]_vars

(* C8.  Rule 4: a request that found its registered task FAILURE surfaces  *)
(* the failure, clears the registration and schedules nothing, and no      *)
(* other request has been answered with the failure of the same task.      *)
C8_FailureReportedOnce ==
    [][ \A p \in Procs :
          (web[p].pc = "L74" /\ Steps(p))
          => /\ web'[p].pc = "done"
             /\ web'[p].resp.kind = "error"
             /\ cache'[TaskCacheKey(web[p].query)] = None
             /\ UNCHANGED <<jobs, nextId>>
             /\ \A q \in Procs \ {p} :
                   ~ ( /\ web[q].pc = "done"
                       /\ web[q].resp.kind = "error"
                       /\ web[q].resp.id = web[p].task_id.val )
      ]_vars

(* C9.  Rule 5 precondition: a SearchView request schedules a job, and     *)
(* registers its id, only if it found no task id registered for its key.   *)
C9_ScheduleOnlyWithoutRegistration ==
    [][ \A p \in Procs :
          (web[p].pc \in {"L79", "L82"} /\ Steps(p)) => web[p].task_id = None
      ]_vars

(* C10.  Polling is read-only: no step of TaskStatusView changes the       *)
(* cache, the registry or a job, or schedules one; and a web worker's step *)
(* that makes a registration disappear is SearchView's deletion after it   *)
(* found the task SUCCESS or FAILURE.                                      *)
C10_PollingReadOnly ==
    [][ \A p \in Procs :
          /\ ( /\ Steps(p)
               /\ \/ web[p].pc = "L208"
                  \/ web[p].pc = "idle" /\ web'[p].view = "status" )
             => UNCHANGED <<cache, jobs, nextId>>
          /\ \A q \in Queries :
                ( /\ Steps(p)
                  /\ cache[TaskCacheKey(q)] # None
                  /\ cache'[TaskCacheKey(q)] = None )
                => (web[p].pc \in {"L62", "L74"} /\ web[p].query = q)
      ]_vars

\* C10's case: a poll was answered with the failure of a task whose
\* registration is still in place.
C10_Witness ==
    \E p \in Procs :
        /\ web[p].pc = "done"
        /\ web[p].view = "status"
        /\ web[p].resp.kind = "ERROR"
        /\ jobs[web[p].resp.id].kind = "search"
        /\ cache[TaskCacheKey(jobs[web[p].resp.id].arg)] = Entry(web[p].resp.id)

(* C11.  A poll answered for a task that has failed is an error response   *)
(* that carries the cause kept for the task's exception; a poll that finds *)
(* the task SUCCESS answers with its result; a poll answered while the     *)
(* task is in a non-terminal state answers "processing".                   *)
C11_PollReportsOutcome ==
    [][ \A p \in Procs :
          /\ ( /\ web[p].pc = "idle"
               /\ web'[p].view = "status"
               /\ web'[p].resp.id # 0
               /\ jobs[web'[p].resp.id].status = "SUCCESS" )
             => web'[p].resp =
                  [kind |-> "SUCCESS", data |-> jobs[web'[p].resp.id].result,
                   id |-> web'[p].resp.id]
          /\ ( /\ web[p].pc = "L208"
               /\ Steps(p)
               /\ jobs[web[p].id].status \notin ReadyStates )
             => web'[p].resp.kind = "PROCESSING"
          /\ ( /\ web[p].pc = "L208"
               /\ Steps(p)
               /\ jobs[web[p].id].status = "FAILURE" )
             => /\ web'[p].resp.kind = "ERROR"
                /\ web'[p].resp.data = <<jobs[web[p].id].exc>>
      ]_vars

(* C12.  A call with an explicit page p fetches page p and nothing else,   *)
(* is over after that one fetch, and returns the records of page p only    *)
(* (none when search_episodes finds no podcast name on page 1).            *)
C12_ExplicitPageFetchesOnce ==
    scr.page # 0 =>
        LET tree == _fetch_and_parse(scr.site, scr.page)
            nameless == /\ scr.op = "search_episodes"
                        /\ scr.page = 1
                        /\ tree.kind = "doc"
                        /\ ~ tree.title
        IN  /\ scr.fetched \in { <<>>, <<scr.page>> }
            /\ scr.fetched # <<>> => scr.pc # "loop"
            /\ scr.pc = "returned" =>
                  scr.results = IF nameless THEN <<>> ELSE PageRecords(scr.op, tree)

(* C13.  search_podcast and get_mp3_links called without a page fetch the  *)
(* pages in the order 1, 2, 3, ...; while the call goes on every page      *)
(* fetched so far has yielded records; and when it returns after fetching  *)
(* a document as its k-th page, that page yields no record, it is the      *)
(* first such page, k fetches were made and the result is the records of   *)
(* pages 1..k-1 in a row.                                                  *)
C13_NoNodesStop ==
    (scr.op \in {"search_podcast", "get_mp3_links"} /\ scr.page = 0) =>
        LET k == Len(scr.fetched)
            Yield(i) == PageRecords(scr.op, _fetch_and_parse(scr.site, i))
        IN  /\ scr.fetched = [i \in 1..k |-> i]
            /\ scr.pc = "loop" => \A i \in 1..k : Yield(i) # <<>>
            /\ (scr.pc = "returned" /\ _fetch_and_parse(scr.site, k).kind = "doc") =>
                  /\ Yield(k) = <<>>
                  /\ \A i \in 1..(k - 1) : Yield(i) # <<>>
                  /\ scr.results = RecordsOfPages(scr.op, scr.site, 1, k - 1)

\* C13's case: three fetches, the third page a document without records, and
\* the records of the first two pages returned.
C13_Witness ==
    /\ scr.op \in {"search_podcast", "get_mp3_links"}
    /\ scr.page = 0
    /\ scr.pc = "returned"
    /\ scr.fetched = <<1, 2, 3>>
    /\ _fetch_and_parse(scr.site, 3).kind = "doc"
    /\ Len(scr.results) = 3

(* C14.  When the k-th fetch of a call without a page, k > 1, fails, the   *)
(* call is over with that fetch and returns the records of pages 1..k-1;   *)
(* the task that made the call caches these records, returns them and      *)
(* ends SUCCESS, never FAILURE.                                            *)
C14_PartialResultsOnFetchFailure ==
    LET k == Len(scr.fetched)
    IN  ( /\ scr.page = 0
          /\ k > 1
          /\ FetchFails(scr.site, k) )
        => /\ scr.pc = "returned"
           /\ scr.results = RecordsOfPages(scr.op, scr.site, 1, k - 1)
           /\ scr.job # 0 =>
                 /\ jobs[scr.job].status # "FAILURE"
                 /\ jobs[scr.job].phase \in {"returning", "done"} =>
                       /\ jobs[scr.job].result = scr.results
                       /\ cache[JobCacheKey(scr.job)] = Entry(scr.results)
                 /\ jobs[scr.job].phase = "done" => jobs[scr.job].status = "SUCCESS"

\* C14's case: the second fetch failed and the task ended SUCCESS with the
\* records of page 1, which are in the cache.
C14_Witness ==
    /\ scr.job # 0
    /\ scr.fetched = <<1, 2>>
    /\ FetchFails(scr.site, 2)
    /\ Len(scr.site) = 3
    /\ scr.results # <<>>
    /\ jobs[scr.job].status = "SUCCESS"
    /\ jobs[scr.job].result = scr.results
    /\ cache[JobCacheKey(scr.job)] = Entry(scr.results)

(* C15.  When the fetch of the first page fails, the task that made the    *)
(* call does not go on to return: it never reaches SUCCESS, it ends        *)
(* FAILURE, and no cache entry is written under its key.                   *)
C15_FirstPageFailureFailsJob ==
    ( /\ scr.job # 0
      /\ scr.fetched # <<>>
      /\ FetchFails(scr.site, 1) )
    => /\ jobs[scr.job].phase # "returning"
       /\ jobs[scr.job].status # "SUCCESS"
       /\ jobs[scr.job].phase = "done" => jobs[scr.job].status = "FAILURE"
       /\ cache[JobCacheKey(scr.job)] = None

\* The nodes of a page that lack nothing: for the audio listing the links
\* that have a thumbnail image at their place, for the other two operations
\* every node (the parsers drop the malformed ones themselves).
WellFormed(op, tree) ==
    IF op = "get_mp3_links" /\ tree.thumbs < Len(tree.nodes)
    THEN [tree EXCEPT !.nodes = SubSeq(tree.nodes, 1, tree.thumbs)]
    ELSE tree

(* C16.  A pass of any of the three loops over a fetched document lets no  *)
(* exception escape, whatever nodes of the page are malformed, and adds    *)
(* the records of the page's well-formed nodes to the records of the       *)
(* earlier pages (nothing is added when search_episodes gives up for want  *)
(* of a podcast name on page 1).                                           *)
C16_MalformedNodeDropped ==
    [][ LET tree == _fetch_and_parse(scr.site, scr.current_page)
            nameless == /\ scr.op = "search_episodes"
                        /\ scr.current_page = 1
                        /\ ~ tree.title
        IN  (scr.pc = "loop" /\ scr' # scr /\ tree.kind = "doc")
            => /\ scr'.pc # "raised"
               /\ scr'.results =
                    IF nameless THEN scr.results
                    ELSE scr.results \o PageRecords(scr.op, WellFormed(scr.op, tree))
      ]_vars

\* A URL of the form https://www.ivoox.com/listen_mn_<digits>_<digits>.mp3
IsListenUrl(url) ==
    /\ Len(url) = 5
    /\ url[1] = "https://www.ivoox.com/listen_mn_"
    /\ IsDigits(url[2])
    /\ url[3] = "_"
    /\ IsDigits(url[4])
    /\ url[5] = ".mp3"

(* C17.  A detail URL with _rf_<digits>_<digits>.html yields the           *)
(* listen_mn_<digits>_<digits>.mp3 URL of the same digits, and every       *)
(* record get_mp3_links has collected has an mp3_url of that form: a link  *)
(* without the pattern has produced no record.                             *)
C17_AudioUrlDerived ==
    /\ construir_url_audio(BASE_URL \o RfHref) =
          <<"https://www.ivoox.com/listen_mn_", RfHref[3], "_", RfHref[5], ".mp3">>
    /\ scr.op = "get_mp3_links" =>
          \A i \in 1..Len(scr.results) : IsListenUrl(scr.results[i].mp3_url)

(* C18.  search_episodes that has fetched page 1 and found no podcast name *)
(* on it is over after that one fetch, with an empty name and no episode,  *)
(* whatever episode nodes and next-page marker page 1 has.                 *)
C18_NoNameAbortsListing ==
    ( /\ scr.op = "search_episodes"
      /\ scr.fetched # <<>>
      /\ scr.fetched[1] = 1
      /\ scr.site[1].kind = "doc"
      /\ ~ scr.site[1].title )
    => /\ scr.pc = "returned"
       /\ scr.fetched = <<1>>
       /\ scr.name = ""
       /\ scr.results = <<>>

\* C18's case: page 1 has an episode node and a next-page marker but no name,
\* a second page is there, and the call without a page is over.
C18_Witness ==
    /\ scr.op = "search_episodes"
    /\ scr.page = 0
    /\ scr.pc = "returned"
    /\ scr.fetched = <<1>>
    /\ scr.site[1].kind = "doc"
    /\ ~ scr.site[1].title
    /\ _parse_episode_nodes(scr.site[1]) # <<>>
    /\ _has_next_page(scr.site[1])
    /\ Len(scr.site) > 1
    /\ scr.site[2].kind = "doc"
    /\ scr.results = <<>>

\* How far a job has come.
PhaseRank(phase) ==
    IF phase = "none" THEN 0
    ELSE IF phase = "queued" THEN 1
    ELSE IF phase = "running" THEN 2
    ELSE IF phase = "returning" THEN 3
    ELSE 4

(* C19.  A task whose work unit raised is FAILURE and over; a FAILURE job  *)
(* never changes again; and no job ever goes back to an earlier phase, so  *)
(* its work unit runs once and is never queued again.                      *)
C19_FailedJobIsTerminal ==
    [][ \A j \in JobIds :
          /\ jobs[j].status = "FAILURE" => jobs'[j] = jobs[j]
          /\ jobs'[j].exc # "" =>
                (jobs'[j].status = "FAILURE" /\ jobs'[j].phase = "done")
          /\ jobs'[j].status = "FAILURE" => jobs'[j].exc # ""
          /\ PhaseRank(jobs'[j].phase) >= PhaseRank(jobs[j].phase)
          /\ jobs[j].phase = "running" /\ jobs'[j] # jobs[j] =>
                PhaseRank(jobs'[j].phase) > PhaseRank(jobs[j].phase)
      ]_vars

\* C19's case: a search task has failed with its exception kept, its failure
\* has been reported, and a later task for the same query has run to SUCCESS
\* while the failed one stayed as it was.
C19_Witness ==
    \E j \in JobIds, k \in JobIds :
        /\ j < k
        /\ jobs[j].kind = "search"
        /\ jobs[j].status = "FAILURE"
        /\ jobs[j].exc = "ParserError"
        /\ jobs[k].kind = "search"
        /\ jobs[k].arg = jobs[j].arg
        /\ jobs[k].status = "SUCCESS"

\* The node a record was made from, its page and its place on the page.
RecordNode(op, record) == IF op = "get_mp3_links" THEN record.id ELSE record
NodePage(node) == node \div 10
NodePlace(node) == node % 10

(* C20.  The records collected by a call are in page order and, within a   *)
(* page, in the order of their nodes in the document; each comes from a    *)
(* page the call has fetched.                                              *)
C20_PageThenNodeOrder ==
    \A a \in 1..Len(scr.results), b \in 1..Len(scr.results) :
        LET na == RecordNode(scr.op, scr.results[a])
            nb == RecordNode(scr.op, scr.results[b])
        IN  /\ \E f \in 1..Len(scr.fetched) : scr.fetched[f] = NodePage(na)
            /\ a < b =>
                  \/ NodePage(na) < NodePage(nb)
                  \/ NodePage(na) = NodePage(nb) /\ NodePlace(na) < NodePlace(nb)

\* C20's case: two records of page 1 followed by the record of the second
\* node of page 2, whose first node was malformed.
C20_Witness ==
    /\ scr.op = "search_podcast"
    /\ scr.pc = "returned"
    /\ scr.results = <<11, 12, 22>>

\* search_episodes gave up on page 1 for want of a podcast name (lines 136-140).
Nameless(site) == site[1].kind = "doc" /\ ~ site[1].title

(* C21 as stated.  search_episodes called without a page fetches page n+1  *)
(* only after a page n that was fetched, yielded an episode and has a      *)
(* next-page marker, and it returns the episodes of all the pages it       *)
(* fetched.                                                                *)
C21_EpisodesOfAllFetchedPages ==
    (scr.op = "search_episodes" /\ scr.page = 0) =>
        LET k == Len(scr.fetched)
            tree(n) == _fetch_and_parse(scr.site, n)
        IN  /\ scr.fetched = [i \in 1..k |-> i]
            /\ \A n \in 1..(k - 1) :
                  /\ tree(n).kind = "doc"
                  /\ _parse_episode_nodes(tree(n)) # <<>>
                  /\ tree(n).next
            /\ scr.pc = "returned" =>
                  scr.results = RecordsOfPages(scr.op, scr.site, 1, k)

(* C21 as amended.  The same, except that a call that found no podcast     *)
(* name on page 1 returns no episode; and a call that returns after a page *)
(* that yielded episodes does so because that page has no next-page marker *)
(* (or no name was found on page 1).                                       *)
C21_EpisodesUpToLastMarker ==
    (scr.op = "search_episodes" /\ scr.page = 0) =>
        LET k == Len(scr.fetched)
            tree(n) == _fetch_and_parse(scr.site, n)
        IN  /\ scr.fetched = [i \in 1..k |-> i]
            /\ \A n \in 1..(k - 1) :
                  /\ tree(n).kind = "doc"
                  /\ _parse_episode_nodes(tree(n)) # <<>>
                  /\ tree(n).next
            /\ scr.pc = "returned" =>
                  /\ scr.results = IF Nameless(scr.site) THEN <<>>
                                   ELSE RecordsOfPages(scr.op, scr.site, 1, k)
                  /\ ( /\ tree(k).kind = "doc"
                       /\ _parse_episode_nodes(tree(k)) # <<>>
                       /\ ~ Nameless(scr.site) )
                     => ~ tree(k).next

\* C21's case: page 1 has a marker, page 2 has none, a third page with
\* episodes is there, and the call has returned the episodes of pages 1 and 2.
C21_Witness ==
    /\ scr.op = "search_episodes"
    /\ scr.page = 0
    /\ scr.pc = "returned"
    /\ scr.fetched = <<1, 2>>
    /\ Len(scr.site) = 3
    /\ scr.site[3].kind = "doc"
    /\ _parse_episode_nodes(scr.site[3]) # <<>>
    /\ scr.results = <<11, 21, 22>>

\* The names a listing can have, and the page numbers a URL can carry.
ListingBases == { <<"p">>, <<"p", "_", "3", ".html">> }
PageNumbers == { Digits[n] : n \in 1..Len(Digits) }

(* C22 as stated.  For a listing URL <base>_<k>.html the URL fetched for   *)
(* page p by get_mp3_links is <base>_<p>.html, whatever k is; and          *)
(* stripping the page suffix a second time changes nothing.                *)
C22_PageSuffixStripIdempotent ==
    scr.op = "get_mp3_links" =>
        /\ \A base \in ListingBases, k \in PageNumbers :
              scr.podcast_url = base \o <<"_", k, ".html">> =>
                  \A i \in 1..Len(scr.urls) :
                      scr.urls[i] = base \o <<"_", str(scr.fetched[i]), ".html">>
        /\ scr.fetched # <<>> =>
              re_sub_page_suffix(re_sub_page_suffix(scr.podcast_url)) =
                  re_sub_page_suffix(scr.podcast_url)

(* C22 as amended.  For a listing URL <base>_<k>.html the URL fetched for  *)
(* page p is <base>_<p>.html, whatever k is; stripping removes one page    *)
(* suffix, so a fetched URL strips back to the same base, and stripping a  *)
(* second time changes nothing exactly when the base does not itself end   *)
(* in a page suffix.                                                       *)
C22_PageUrlFromBase ==
    (scr.op = "get_mp3_links" /\ scr.fetched # <<>>) =>
        /\ \A base \in ListingBases, k \in PageNumbers :
              scr.podcast_url = base \o <<"_", k, ".html">> =>
                  /\ re_sub_page_suffix(scr.podcast_url) = base
                  /\ \A i \in 1..Len(scr.urls) :
                        /\ scr.urls[i] = base \o <<"_", str(scr.fetched[i]), ".html">>
                        /\ re_sub_page_suffix(scr.urls[i]) = base
                  /\ ( re_sub_page_suffix(base) = base
                       <=> base \notin { b \o <<"_", d, ".html">> :
                                           b \in ListingBases, d \in PageNumbers } )
        /\ Len(scr.urls) = Len(scr.fetched)

\* C22's case: called with page 2 of a listing, get_mp3_links has asked for
\* its pages 1 and 2.
C22_Witness ==
    /\ scr.op = "get_mp3_links"
    /\ scr.podcast_url = <<"p", "_", "2", ".html">>
    /\ scr.fetched = <<1, 2>>
    /\ scr.urls = << <<"p", "_", "1", ".html">>, <<"p", "_", "2", ".html">> >>

----------------------------------------------------------------------------
(* C23.  The registration of a search task is removed only by a SearchView *)
(* request that read it and saw its task SUCCESS or FAILURE (lines 62 and  *)
(* 74); as long as the registered task is not ready the registration stays *)
(* in place, so that later requests for the query find it and schedule no  *)
(* second task.                                                            *)
C23_RegistrationStaysWhilePending ==
    [][ \A q \in Queries :
          LET registration == cache[TaskCacheKey(q)]
          IN  registration.present =>
                /\ jobs[registration.val].status \notin ReadyStates
                      => cache'[TaskCacheKey(q)] = registration
                /\ ~ cache'[TaskCacheKey(q)].present
                      => \E p \in Procs :
                            /\ web[p].pc \in {"L62", "L74"}
                            /\ web'[p].pc = "done"
                            /\ web[p].query = q
                            /\ web[p].task_id = registration
                            /\ web[p].state \in ReadyStates
      ]_vars

(* C24.  The work unit writes the cache before it returns: a job becomes   *)
(* SUCCESS only after the step of its task that wrote the cache entry of   *)
(* its key with exactly the result the backend then stores, the job being  *)
(* still reported as STARTED between the two.                              *)
C24_CacheWrittenBeforeSuccess ==
    [][ \A j \in JobIds :
          /\ (jobs'[j].status = "SUCCESS" /\ jobs[j].status # "SUCCESS") =>
                /\ jobs[j].phase = "returning"
                /\ jobs[j].status \in PendingStates
          /\ (jobs'[j].phase = "returning" /\ jobs[j].phase # "returning") =>
                /\ cache'[JobCacheKey(j)] = Entry(jobs'[j].result)
                /\ jobs'[j].status \in PendingStates
          /\ jobs[j].phase \in {"returning", "done"} =>
                jobs'[j].result = jobs[j].result
      ]_vars

\* C24's case: a search request has been served from the cache with the
\* result of a task that is still reported as STARTED and still registered.
C24_Witness ==
    \E p \in Procs, j \in JobIds :
        /\ jobs[j].kind = "search"
        /\ jobs[j].phase = "returning"
        /\ jobs[j].status = "STARTED"
        /\ cache[TaskCacheKey(jobs[j].arg)] = Entry(j)
        /\ cache[SearchCacheKey(jobs[j].arg)] = Entry(jobs[j].result)
        /\ web[p].pc = "done"
        /\ web[p].view = "search"
        /\ web[p].resp = [kind |-> "cached", data |-> jobs[j].result, id |-> 0]

\* The keys results are cached under.
ResultKeys ==
    { SearchCacheKey(q) : q \in Queries } \cup { EpisodesCacheKey(u) : u \in Urls }

(* C25.  A work unit that ends by raising leaves the cache unchanged: the  *)
(* step in which a job becomes FAILURE changes no cache entry, and the     *)
(* entry of a result key is created or given a new value only by the step  *)
(* of a task of that key that goes on to return, with the value that task  *)
(* returns.                                                                *)
C25_FailureLeavesCacheUnchanged ==
    [][ /\ \A j \in JobIds :
              (jobs'[j].status = "FAILURE" /\ jobs[j].status # "FAILURE") =>
                  /\ jobs[j].phase = "running"
                  /\ cache' = cache
        /\ \A k \in ResultKeys :
              (cache'[k].present /\ cache'[k] # cache[k]) =>
                  \E j \in JobIds :
                      /\ JobCacheKey(j) = k
                      /\ jobs[j].phase = "running"
                      /\ jobs'[j].phase = "returning"
                      /\ jobs'[j].exc = ""
                      /\ cache'[k] = Entry(jobs'[j].result)
      ]_vars

\* C25's case: two tasks were scheduled for the same listing; one returned
\* and its result is in the cache, the other raised, and the entry is the
\* one the first task wrote.
C25_Witness ==
    \E j \in JobIds, k \in JobIds :
        /\ j # k
        /\ jobs[j].kind = jobs[k].kind
        /\ jobs[j].arg = jobs[k].arg
        /\ jobs[j].status = "SUCCESS"
        /\ jobs[j].result # <<>>
        /\ jobs[k].status = "FAILURE"
        /\ jobs[k].exc # ""
        /\ cache[JobCacheKey(k)] = Entry(jobs[j].result)

====
